---- MODULE Spec2Model ----
(***************************************************************************)
(* The routing engine of the proxy server: the Backend Storage and the     *)
(* Backend Manager, the Pending-Dial Table, the Frontend Registry, the     *)
(* gRPC frontend stream handler (Proxy / serveRecvFrontend), the HTTP      *)
(* CONNECT handler (Tunnel.ServeHTTP) and the backend stream handler       *)
(* (Connect / serveRecvBackend).                                           *)
(*                                                                         *)
(* Every goroutine is a process with a program counter.  One action is one *)
(* step between two synchronisation points of the code (a lock-protected   *)
(* table operation, or a send on a stream), so that the interleavings of   *)
(* the handlers are the ones the Go scheduler can produce.                 *)
(***************************************************************************)
EXTENDS Integers, Sequences, FiniteSets, TLC

\* ------------------------------------------------------------ bounds
MaxStreams == 2      \* agent streams that may connect
MaxRecords == 2      \* dials (ProxyClientConnection objects) created
MaxAgentPkts == 2    \* packets the agent streams deliver, all together
MaxSenders == 2      \* concurrent callers of backend.Send
MaxSends == 2        \* packets written to one agent stream by backend.Send
MaxTunnelReads == 1  \* reads of one hijacked socket that return data
MaxHappyData == 3    \* DATA packets of the agent on the happy path
MaxArrivals == 12    \* packets one stream delivers to its reader goroutine
MaxCallers == 2      \* concurrent callers of the Backend Storage
MaxDraws == 3        \* numbers drawn from the storage's generator
ChanDepth == 10      \* make(chan *client.Packet, 10)

AgentIDs == {"a", "b"}
Streams == 1..MaxStreams
Grpcs == {1}
Tunnels == {1}
Nonces == {1, 2}
ConnIDs == {1, 2}
RecIds == 1..MaxRecords

\* ------------------------------------------------------------ packets
NoPkt == [type |-> "NONE", random |-> 0, connectID |-> 0, error |-> FALSE]

DialReq(r) == [type |-> "DIAL_REQ", random |-> r, connectID |-> 0, error |-> FALSE]

DialRsp(r, c, e) == [type |-> "DIAL_RSP", random |-> r, connectID |-> c, error |-> e]

Data(c) == [type |-> "DATA", random |-> 0, connectID |-> c, error |-> FALSE]

CloseReq(c) == [type |-> "CLOSE_REQ", random |-> 0, connectID |-> c, error |-> FALSE]

CloseRsp(c) == [type |-> "CLOSE_RSP", random |-> 0, connectID |-> c, error |-> FALSE]

\* ------------------------------------------------------------ state
VARIABLES
    backends,      \* DefaultBackendStorage.backends: agentID -> list of handles
    agentIDs,      \* DefaultBackendStorage.agentIDs
    pendingDial,   \* PendingDialManager.pendingDial: nonce -> record (0: absent)
    frontends,     \* ProxyServer.frontends: agentID -> connID -> record (0: absent)
    conns,         \* the ProxyClientConnection objects, by identity
    bs,            \* per agent stream: Connect and serveRecvBackend
    fs,            \* per gRPC frontend stream: Proxy and serveRecvFrontend
    ts,            \* per HTTP CONNECT request: Tunnel.ServeHTTP
    proxyStrategy, \* the selection strategy, fixed at construction
    authEnabled,   \* AgentAuthenticationOptions.Enabled
    panicked,      \* the process died of a runtime panic
    npkts,         \* packets the agent streams have delivered so far
    call,          \* the last direct call of a storage, manager or adapter
                   \* method, with what it returned
    send,          \* backend.Send: each handle's mutex, the callers' positions
                   \* and what has reached each agent stream
    pipe,          \* one stream's reader goroutine, its recvCh and its handler
    rng            \* the storage's RWMutex and random generator, and the
                   \* callers of GetRandomBackend and AddBackend

vars == <<backends, agentIDs, pendingDial, frontends, conns, bs, fs, ts,
          proxyStrategy, authEnabled, panicked, npkts,
          call, send, pipe, rng>>

\* ------------------------------------------------------------ maps
MapPut(m, k, v) == [x \in (DOMAIN m) \cup {k} |-> IF x = k THEN v ELSE m[x]]

MapDel(m, k) == [x \in (DOMAIN m) \ {k} |-> m[x]]

EmptyMap == [x \in {} |-> 0]

RECURSIVE SeqWithout(_, _)
SeqWithout(s, x) ==
    IF s = <<>> THEN <<>>
    ELSE IF Head(s) = x THEN SeqWithout(Tail(s), x)
    ELSE <<Head(s)>> \o SeqWithout(Tail(s), x)

SeqHas(s, x) == \E i \in 1..Len(s) : s[i] = x

\* ------------------------------------------------------------ Backend Storage
\* AddBackend: (backends', agentIDs').  A handle is identified with its stream:
\* adding a registered stream again returns the existing handle.
AddBackendMap(bk, agentID, conn) ==
    IF agentID \in DOMAIN bk
    THEN IF SeqHas(bk[agentID], conn) THEN bk
         ELSE [bk EXCEPT ![agentID] = Append(@, conn)]
    ELSE MapPut(bk, agentID, <<conn>>)

AddBackendIDs(bk, ids, agentID) ==
    IF agentID \in DOMAIN bk THEN ids ELSE Append(ids, agentID)

\* RemoveBackend without the delete of a key whose list empties.
RemoveBackendMapKeepingKey(bk, agentID, conn) ==
    IF agentID \notin DOMAIN bk THEN bk
    ELSE [bk EXCEPT ![agentID] = SeqWithout(@, conn)]

\* RemoveBackend: the handle list without conn, the key deleted when it empties.
RemoveBackendMap(bk, agentID, conn) ==
    IF agentID \notin DOMAIN bk THEN bk
    ELSE LET rest == SeqWithout(bk[agentID], conn)
         IN  IF rest = <<>> THEN MapDel(bk, agentID)
             ELSE [bk EXCEPT ![agentID] = rest]

\* The removal that shortens the slice without the copy of the last element.
SwapRemoveWithoutSwap(ids, agentID) ==
    IF ~SeqHas(ids, agentID) THEN ids
    ELSE SubSeq(ids, 1, Len(ids) - 1)

\* The swap-with-last removal of the first occurrence of agentID.
SwapRemove(ids, agentID) ==
    IF ~SeqHas(ids, agentID) THEN ids
    ELSE LET i == CHOOSE j \in 1..Len(ids) :
                      ids[j] = agentID /\ \A k \in 1..(j - 1) : ids[k] # agentID
             n == Len(ids)
         IN  SubSeq([ids EXCEPT ![i] = ids[n]], 1, n - 1)

RemoveBackendIDs(bk, ids, agentID, conn) ==
    IF agentID \notin DOMAIN bk THEN ids
    ELSE IF SeqWithout(bk[agentID], conn) = <<>> THEN SwapRemove(ids, agentID)
    ELSE ids

NumBackends(bk) == Cardinality(DOMAIN bk)

\* What the index expression s.backends[agentID][0] yields: the handle, or -1
\* when the list is nil or empty (index out of range: a runtime panic).
FirstHandle(bk, agentID) ==
    IF agentID \in DOMAIN bk /\ Len(bk[agentID]) > 0 THEN bk[agentID][1]
    ELSE -1

\* GetRandomBackend with the test of len(s.backends) left out.
GetRandomBackendUnguarded(bk, ids) ==
    IF Len(ids) = 0 THEN {-1}
    ELSE {FirstHandle(bk, ids[i]) : i \in 1..Len(ids)}

\* GetRandomBackend: the set of its possible results; 0 is nil, -1 a panic.
GetRandomBackend(bk, ids) ==
    IF NumBackends(bk) = 0 THEN {0}
    ELSE IF Len(ids) = 0 THEN {-1}         \* Intn(0) panics
    ELSE {FirstHandle(bk, ids[i]) : i \in 1..Len(ids)}

\* GetBackend that ignores the agentID it is given.
GetBackendOfAnyAgent(bk, agentID) ==
    IF NumBackends(bk) = 0 THEN 0
    ELSE FirstHandle(bk, CHOOSE a \in DOMAIN bk : TRUE)

\* GetBackend: 0 is nil, -1 a panic.
GetBackend(bk, agentID) ==
    IF NumBackends(bk) = 0 THEN 0 ELSE FirstHandle(bk, agentID)

\* ------------------------------------------------------------ Backend Manager
\* Backend(ctx): the set of possible outcomes; ctx is the destIP value bound
\* in the context, or "" when none is bound.  0 stands for (nil, err).
DefaultBackend(bk, ids) == GetRandomBackend(bk, ids)

DestIPBackend(bk, destIP) ==
    IF destIP = "" THEN {0} ELSE {GetBackend(bk, destIP)}

Backend(strategy, bk, ids, destIP) ==
    IF strategy = "destIP" THEN DestIPBackend(bk, destIP)
    ELSE DefaultBackend(bk, ids)

\* ------------------------------------------------------------ Pending-Dial Table
\* Add that inserts nothing: the DIAL_REQ is sent with no pending record.
PendingDialAddNothing(pd, random, k) == pd

PendingDialAdd(pd, random, k) == [pd EXCEPT ![random] = k]

PendingDialGet(pd, random) == pd[random]

\* Remove that deletes nothing.
PendingDialRemoveNothing(pd, random) == pd

PendingDialRemove(pd, random) == [pd EXCEPT ![random] = 0]

\* ------------------------------------------------------------ Frontend Registry
\* An agentID whose inner map is empty is an agentID absent from the outer map.
addFrontend(fr, agentID, connID, k) == [fr EXCEPT ![agentID][connID] = k]

removeFrontend(fr, agentID, connID) == [fr EXCEPT ![agentID][connID] = 0]

getFrontend(fr, agentID, connID) == fr[agentID][connID]

\* The records under agentID whose backend field is the handle, one per
\* registry entry, keyed by the entry's connID (0: not listed).
getFrontendsForBackendConn(fr, cs, agentID, backend) ==
    [c \in ConnIDs |->
        IF fr[agentID][c] # 0 /\ cs[fr[agentID][c]].backend = backend
        THEN fr[agentID][c] ELSE 0]

InRegistry(fr, k) == \E a \in AgentIDs, c \in ConnIDs : fr[a][c] = k

InPending(pd, k) == \E r \in Nonces : pd[r] = k

\* The adapter with a failed DIAL_RSP treated as a successful one.
AdapterActionIgnoringDialError(mode, ptype, hasError) ==
    IF mode = "grpc" THEN "forward"
    ELSE IF mode = "http-connect" THEN
        IF ptype = "CLOSE_RSP" THEN "close"
        ELSE IF ptype = "DATA" THEN "write"
        ELSE IF ptype = "DIAL_RSP" THEN "noop"
        ELSE "unsupported"
    ELSE "unknown-mode"

\* ------------------------------------------------------------ send adapter
\* ProxyClientConnection.send: what the adapter does with a packet.
AdapterAction(mode, ptype, hasError) ==
    IF mode = "grpc" THEN "forward"
    ELSE IF mode = "http-connect" THEN
        IF ptype = "CLOSE_RSP" THEN "close"
        ELSE IF ptype = "DATA" THEN "write"
        ELSE IF ptype = "DIAL_RSP" THEN (IF hasError THEN "close" ELSE "noop")
        ELSE "unsupported"
    ELSE "unknown-mode"

\* ------------------------------------------------------------ records
\* A ProxyClientConnection.  Mode, owner (its Grpc stream or HTTP socket),
\* connected (how many times close(connected) ran), connectID, agentID and
\* backend are the object's fields; the others record its history:
\*   random    the nonce it was added under
\*   added     PendingDial.Add has inserted it
\*   dialSent  the handle its DIAL_REQ was sent on (0: not sent)
\*   found     a DIAL_RSP's lookup in the Pending-Dial Table returned it
\*   ans       what the lookup of the first DIAL_RSP answering its DIAL_REQ,
\*             that is the first DIAL_RSP carrying its nonce on the stream the
\*             DIAL_REQ was sent on, gave: "hit" (this record), "displaced"
\*             (not this record, which had been added), "absent" (not this
\*             record, which had not been added)
\*   dialRsp   DIAL_RSP packets passed to its adapter
\*   okRsp     an error-free DIAL_RSP was forwarded through its adapter
\*   promoted  the handle it was bound to when addFrontend inserted it (0: never)
\*   synth     CLOSE_RSP packets the disconnect cleanup passed to its adapter
\*   tornDown  a CLOSE_RSP of the agent was forwarded to it
NewConn(mode, owner, backend, random) ==
    [Mode |-> mode, owner |-> owner, connected |-> 0, connectID |-> 0,
     agentID |-> "", backend |-> backend,
     random |-> random, added |-> FALSE, dialSent |-> 0, found |-> FALSE,
     ans |-> "none",
     dialRsp |-> 0, okRsp |-> FALSE, promoted |-> 0, synth |-> 0,
     tornDown |-> FALSE]

Cap2(n) == IF n >= 2 THEN 2 ELSE n + 1

\* Whether the adapter's send returns nil: a gRPC stream accepts packets until
\* it ends; a hijacked socket can be written and closed while it is open.
AdapterOk(k, pkt) ==
    LET act == AdapterAction(conns[k].Mode, pkt.type, pkt.error)
    IN  IF act = "forward" THEN fs[conns[k].owner].pc # "done"
        ELSE IF act \in {"close", "write"} THEN ts[conns[k].owner].sock = "open"
        ELSE act = "noop"

\* The sockets after the adapter's send.
AdapterSocks(k, pkt) ==
    IF AdapterAction(conns[k].Mode, pkt.type, pkt.error) = "close"
    THEN [ts EXCEPT ![conns[k].owner].sock = "closed"]
    ELSE ts

\* backend.Send returns nil while the agent's stream is open.
BackendSendOk(h) == bs[h].open

\* ------------------------------------------------------------ direct calls
\* No method has been called directly.
NoCall ==
    [op |-> "none", agentID |-> "", conn |-> 0, mode |-> "", ptype |-> "",
     error |-> FALSE, ret |-> 0]

\* The modes a record may carry and the packet variants of the wire protocol
\* ("UNKNOWN": any variant the adapter does not name).
Modes == {"grpc", "http-connect", "udp"}

PacketTypes == {"DIAL_REQ", "DIAL_RSP", "DATA", "CLOSE_REQ", "CLOSE_RSP",
                "UNKNOWN"}

\* ------------------------------------------------------------ backend.Send
\* The callers of backend.Send (frontend stream handlers and tunnel handlers).
Senders == 1..MaxSenders

\* No caller is in Send: every mutex is free and nothing has been written.
\*   mu[h]    the caller holding b.mu of handle h (0: unlocked)
\*   at[p]    where caller p is: "idle", "lock" (blocked in b.mu.Lock),
\*            "send" (holds b.mu, before b.conn.Send), "in" (inside
\*            b.conn.Send), "out" (b.conn.Send returned, b.mu still held)
\*   h[p]     the handle caller p is sending on
\*   wire[h]  what the agent stream of h has seen: <<"begin", p>> when a
\*            caller starts writing a packet, <<"end", p>> when it is written
NoSend ==
    [mu |-> [h \in Streams |-> 0],
     at |-> [p \in Senders |-> "idle"],
     h |-> [p \in Senders |-> 0],
     wire |-> [h \in Streams |-> <<>>]]

\* ------------------------------------------------------------ recvCh
\* Proxy and Connect have not been called: no goroutine, no channel.
\*   kind    "frontend" (Proxy, serveRecvFrontend) or "backend" (Connect,
\*           serveRecvBackend); "" before the call
\*   rd      the reader goroutine: "none", "recv" (in stream.Recv), "push"
\*           (at recvCh <- in), "returned"
\*   in      packets stream.Recv has returned; they are numbered 1, 2, ...
\*   hold    the packet the reader is about to push (0: none)
\*   ch      the content of recvCh
\*   closed  recvCh is closed
\*   hd      the handler goroutine: "none", "loop", "done"
\*   out     the packets the handler has handled and forwarded, in that order
NoPipe ==
    [kind |-> "", rd |-> "none", in |-> 0, hold |-> 0, ch |-> <<>>,
     closed |-> FALSE, hd |-> "none", out |-> <<>>]

PipeKinds == {"frontend", "backend"}

\* ------------------------------------------------------------ generator
Callers == 1..MaxCallers

\* The storage's lock is free and nothing has been drawn.
\*   readers   the callers holding s.mu.RLock
\*   writer    the caller holding s.mu.Lock (0: none)
\*   state     the generator's state: the number of draws it has recorded
\*   at[p]     where caller p is: "idle", "rlocked", "read" (inside Intn,
\*             has read the state), "drawn" (Intn has written the state and
\*             returned), "wlocked" (inside AddBackend)
\*   seen[p]   the state caller p read inside Intn
NoRng ==
    [readers |-> {}, writer |-> 0, state |-> 0,
     at |-> [p \in Callers |-> "idle"], seen |-> [p \in Callers |-> 0]]

\* ------------------------------------------------------------ initial state
NoTodo == [c \in ConnIDs |-> 0]

InitWith(strategy, auth) ==
    /\ backends = EmptyMap
    /\ agentIDs = <<>>
    /\ pendingDial = [r \in Nonces |-> 0]
    /\ frontends = [a \in AgentIDs |-> [c \in ConnIDs |-> 0]]
    /\ conns = <<>>
    /\ bs = [s \in Streams |->
                [pc |-> "idle", agentID |-> "", auth |-> "none", open |-> FALSE,
                 pkt |-> NoPkt, frontend |-> 0, todo |-> NoTodo]]
    /\ fs = [f \in Grpcs |->
                [pc |-> "recv", backend |-> 0, firstConnID |-> 0, rec |-> 0,
                 latched |-> 0, lastTo |-> 0, synthTo |-> 0, synthID |-> 0]]
    /\ ts = [t \in Tunnels |->
                [pc |-> "idle", sock |-> "none", backend |-> 0, rec |-> 0,
                 connID |-> 0, agentID |-> "", reads |-> 0, destIP |-> "",
                 dataTo |-> 0]]
    /\ proxyStrategy = strategy
    /\ authEnabled \in auth
    /\ panicked = FALSE
    /\ npkts = 0
    /\ call = NoCall
    /\ send = NoSend
    /\ pipe = NoPipe
    /\ rng = NoRng

Init == InitWith("default", BOOLEAN)

\* ------------------------------------------------------------ agent streams
\* Names are interchangeable, so only the behaviours are generated in which
\* streams are numbered in the order they connect, the first agent to connect
\* is "a", the first dial carries nonce 1 and the first DIAL_RSP that finds a
\* pending record carries connID 1.
FirstAgent(a) == a = "a" \/ \E s \in Streams : bs[s].agentID # ""

FirstNonce(r) == r = 1 \/ conns # <<>>

FirstConnID(c) ==
    \/ c = 1
    \/ \E k \in DOMAIN conns : conns[k].found

\* Connect, up to the authentication: the agentID is read from the metadata,
\* the stream is registered (AddBackend) and the header is sent.  A failed
\* SendHeader returns, and the deferred RemoveBackend runs.  With the
\* authentication disabled, serveRecvBackend is started at once.
Connect(s, a, hdrOk) ==
    /\ ~panicked
    /\ bs[s].pc = "idle"
    /\ \A s2 \in Streams : s2 < s => bs[s2].pc # "idle"
    /\ FirstAgent(a)
    /\ LET bk == AddBackendMap(backends, a, s)
           ids == AddBackendIDs(backends, agentIDs, a)
       IN  IF hdrOk
           THEN /\ backends' = bk
                /\ agentIDs' = ids
                /\ bs' = [bs EXCEPT ![s].pc = IF authEnabled THEN "auth"
                                              ELSE "recv",
                                    ![s].auth = IF authEnabled THEN "none"
                                                ELSE "off",
                                    ![s].agentID = a, ![s].open = TRUE]
           ELSE /\ backends' = RemoveBackendMap(bk, a, s)
                /\ agentIDs' = RemoveBackendIDs(bk, ids, a, s)
                /\ bs' = [bs EXCEPT ![s].pc = "ended", ![s].agentID = a]
    /\ UNCHANGED <<pendingDial, frontends, conns, fs, ts, proxyStrategy,
                   authEnabled, call, send, pipe, rng, panicked, npkts>>

\* Connect, the authentication (enabled): when it fails, Connect returns and
\* the deferred RemoveBackend runs; otherwise serveRecvBackend is started.
Authenticate(s, ok) ==
    /\ ~panicked
    /\ bs[s].pc = "auth"
    /\ IF ~ok
       THEN /\ backends' = RemoveBackendMap(backends, bs[s].agentID, s)
            /\ agentIDs' = RemoveBackendIDs(backends, agentIDs, bs[s].agentID, s)
            /\ bs' = [bs EXCEPT ![s].pc = "ended", ![s].auth = "failed",
                                ![s].open = FALSE]
       ELSE /\ UNCHANGED <<backends, agentIDs>>
            /\ bs' = [bs EXCEPT ![s].pc = "recv", ![s].auth = "ok"]
    /\ UNCHANGED <<pendingDial, frontends, conns, fs, ts, proxyStrategy,
                   authEnabled, call, send, pipe, rng, panicked, npkts>>

\* The agent's stream ends: Recv fails, Connect returns, its deferred calls
\* close recvCh and run RemoveBackend.  The handler finishes the packet it is
\* at and then finds the channel closed.
StreamEnd(s) ==
    /\ ~panicked
    /\ bs[s].open
    /\ bs[s].pc \notin {"idle", "auth", "ended"}
    /\ backends' = RemoveBackendMap(backends, bs[s].agentID, s)
    /\ agentIDs' = RemoveBackendIDs(backends, agentIDs, bs[s].agentID, s)
    /\ bs' = [bs EXCEPT ![s].open = FALSE]
    /\ UNCHANGED <<pendingDial, frontends, conns, fs, ts, proxyStrategy,
                   authEnabled, call, send, pipe, rng, panicked, npkts>>

\* What the lookup of a DIAL_RSP on stream s with nonce r, which found record
\* `found`, is for record k: the first answer to k's DIAL_REQ or not.
AnswerFor(k, s, r, found) ==
    IF conns[k].random = r /\ conns[k].dialSent = s /\ conns[k].ans = "none"
    THEN (IF found = k THEN "hit"
          ELSE IF conns[k].added THEN "displaced" ELSE "absent")
    ELSE conns[k].ans

\* serveRecvBackend, DIAL_RSP: the lookup in the Pending-Dial Table.
ServeDialRsp(s, r, c, e) ==
    /\ ~panicked
    /\ bs[s].pc = "recv" /\ bs[s].open
    /\ npkts' = npkts + 1
    /\ LET k == PendingDialGet(pendingDial, r)
       IN  /\ k # 0 => FirstConnID(c)
           /\ bs' = IF k = 0
                    THEN bs
                    ELSE [bs EXCEPT ![s].pc = "dialSend",
                                    ![s].pkt = DialRsp(r, c, e),
                                    ![s].frontend = k]
           /\ conns' = [j \in DOMAIN conns |->
                           [conns[j] EXCEPT !.ans = AnswerFor(j, s, r, k),
                                            !.found = @ \/ j = k]]
    /\ UNCHANGED <<backends, agentIDs, pendingDial, frontends, fs, ts,
                   proxyStrategy, authEnabled, call, send, pipe, rng, panicked>>

\* A DIAL_RSP arrives on stream s, of an agent that may send anything
\* (within the bound on its packets).
RecvDialRsp(s, r, c, e) ==
    /\ npkts < MaxAgentPkts
    /\ ServeDialRsp(s, r, c, e)

\* The check of resp.Error left out.
PromotesDespiteDialError(pkt, sendOk) == sendOk

\* Whether the DIAL_RSP just forwarded promotes the record: no dial error and
\* the forward succeeded.
Promotes(pkt, sendOk) == ~pkt.error /\ sendOk

\* serveRecvBackend, DIAL_RSP: frontend.send(pkt), then PendingDial.Remove.
DialRspForward(s) ==
    /\ ~panicked
    /\ bs[s].pc = "dialSend"
    /\ LET k == bs[s].frontend
           pkt == bs[s].pkt
           ok == AdapterOk(k, pkt)
       IN  /\ ts' = AdapterSocks(k, pkt)
           /\ pendingDial' = PendingDialRemove(pendingDial, pkt.random)
           /\ conns' = [conns EXCEPT ![k].dialRsp = Cap2(@),
                                     ![k].okRsp = @ \/ (~pkt.error /\ ok)]
           /\ bs' = IF Promotes(pkt, ok)
                    THEN [bs EXCEPT ![s].pc = "dialAdd"]
                    ELSE [bs EXCEPT ![s].pc = "recv", ![s].pkt = NoPkt,
                                    ![s].frontend = 0]
    /\ UNCHANGED <<backends, agentIDs, frontends, fs, proxyStrategy,
                   authEnabled, call, send, pipe, rng, panicked, npkts>>

\* serveRecvBackend, DIAL_RSP: connectID and agentID are set, addFrontend.
DialRspPromote(s) ==
    /\ ~panicked
    /\ bs[s].pc = "dialAdd"
    /\ LET k == bs[s].frontend
           c == bs[s].pkt.connectID
       IN  /\ conns' = [conns EXCEPT ![k].connectID = c,
                                     ![k].agentID = bs[s].agentID,
                                     ![k].promoted = conns[k].backend]
           /\ frontends' = addFrontend(frontends, bs[s].agentID, c, k)
    /\ bs' = [bs EXCEPT ![s].pc = "dialClose"]
    /\ UNCHANGED <<backends, agentIDs, pendingDial, fs, ts, proxyStrategy,
                   authEnabled, call, send, pipe, rng, panicked, npkts>>

\* serveRecvBackend, DIAL_RSP: close(frontend.connected).  Closing a closed
\* channel is a runtime panic.
DialRspSignal(s) ==
    /\ ~panicked
    /\ bs[s].pc = "dialClose"
    /\ LET k == bs[s].frontend
       IN  /\ conns' = [conns EXCEPT ![k].connected = @ + 1]
           /\ panicked' = (conns[k].connected >= 1)
    /\ bs' = [bs EXCEPT ![s].pc = "recv", ![s].pkt = NoPkt, ![s].frontend = 0]
    /\ UNCHANGED <<backends, agentIDs, pendingDial, frontends, fs, ts,
                   proxyStrategy, authEnabled, call, send, pipe, rng, npkts>>

\* serveRecvBackend, DATA: getFrontend, then the adapter's send.
ServeData(s, c) ==
    /\ ~panicked
    /\ bs[s].pc = "recv" /\ bs[s].open
    /\ npkts' = npkts + 1
    /\ LET k == getFrontend(frontends, bs[s].agentID, c)
       IN  ts' = IF k = 0 THEN ts ELSE AdapterSocks(k, Data(c))
    /\ UNCHANGED <<backends, agentIDs, pendingDial, frontends, conns, bs, fs,
                   proxyStrategy, authEnabled, call, send, pipe, rng, panicked>>

\* A DATA case that unregisters the frontend when the forward fails.
RecvDataDroppingFrontend(s, c) ==
    /\ ~panicked
    /\ bs[s].pc = "recv" /\ bs[s].open /\ npkts < MaxAgentPkts
    /\ npkts' = npkts + 1
    /\ LET k == getFrontend(frontends, bs[s].agentID, c)
       IN  /\ ts' = IF k = 0 THEN ts ELSE AdapterSocks(k, Data(c))
           /\ frontends' = IF k # 0 /\ ~AdapterOk(k, Data(c))
                           THEN removeFrontend(frontends, bs[s].agentID, c)
                           ELSE frontends
    /\ UNCHANGED <<backends, agentIDs, pendingDial, conns, bs, fs,
                   proxyStrategy, authEnabled, call, send, pipe, rng, panicked>>

\* A DATA arrives on stream s.
RecvData(s, c) ==
    /\ npkts < MaxAgentPkts
    /\ ServeData(s, c)

\* A CLOSE_RSP case that leaves the Frontend Registry alone when the forward
\* to the frontend fails.
ServeCloseRspKeepingFailed(s, c) ==
    /\ ~panicked
    /\ bs[s].pc = "recv" /\ bs[s].open
    /\ npkts' = npkts + 1
    /\ LET k == getFrontend(frontends, bs[s].agentID, c)
       IN  IF k = 0 \/ ~AdapterOk(k, CloseRsp(c))
           THEN UNCHANGED <<ts, frontends, conns>>
           ELSE /\ ts' = AdapterSocks(k, CloseRsp(c))
                /\ frontends' = removeFrontend(frontends, bs[s].agentID, c)
                /\ conns' = [conns EXCEPT ![k].tornDown = TRUE]
    /\ UNCHANGED <<backends, agentIDs, pendingDial, bs, fs, proxyStrategy,
                   authEnabled, call, send, pipe, rng, panicked>>

\* serveRecvBackend, CLOSE_RSP: getFrontend, the adapter's send, removeFrontend.
ServeCloseRsp(s, c) ==
    /\ ~panicked
    /\ bs[s].pc = "recv" /\ bs[s].open
    /\ npkts' = npkts + 1
    /\ LET k == getFrontend(frontends, bs[s].agentID, c)
       IN  IF k = 0
           THEN UNCHANGED <<ts, frontends, conns>>
           ELSE /\ ts' = AdapterSocks(k, CloseRsp(c))
                /\ frontends' = removeFrontend(frontends, bs[s].agentID, c)
                /\ conns' = [conns EXCEPT ![k].tornDown = TRUE]
    /\ UNCHANGED <<backends, agentIDs, pendingDial, bs, fs, proxyStrategy,
                   authEnabled, call, send, pipe, rng, panicked>>

\* A CLOSE_RSP arrives on stream s.
RecvCloseRsp(s, c) ==
    /\ npkts < MaxAgentPkts
    /\ ServeCloseRsp(s, c)

\* A cleanup that also sweeps the pending records bound to the handle.
CleanupListSweepingPending(s) ==
    /\ ~panicked
    /\ bs[s].pc = "recv" /\ ~bs[s].open
    /\ bs' = [bs EXCEPT ![s].pc = "cleanup",
                        ![s].todo = getFrontendsForBackendConn(
                                        frontends, conns, bs[s].agentID, s)]
    /\ pendingDial' = [r \in Nonces |->
                          IF pendingDial[r] # 0 /\ conns[pendingDial[r]].backend = s
                          THEN 0 ELSE pendingDial[r]]
    /\ UNCHANGED <<backends, agentIDs, frontends, conns, fs, ts,
                   proxyStrategy, authEnabled, call, send, pipe, rng, panicked, npkts>>

\* serveRecvBackend's deferred cleanup: getFrontendsForBackendConn.
CleanupList(s) ==
    /\ ~panicked
    /\ bs[s].pc = "recv" /\ ~bs[s].open
    /\ bs' = [bs EXCEPT ![s].pc = "cleanup",
                        ![s].todo = getFrontendsForBackendConn(
                                        frontends, conns, bs[s].agentID, s)]
    /\ UNCHANGED <<backends, agentIDs, pendingDial, frontends, conns, fs, ts,
                   proxyStrategy, authEnabled, call, send, pipe, rng, panicked, npkts>>

\* The cleanup's loop body for one listed record (a Go map is ranged over in
\* any order): removeFrontend(agentID, frontend.connectID), then a CLOSE_RSP
\* carrying frontend.connectID through the record's adapter.
CleanupOne(s, c) ==
    /\ ~panicked
    /\ bs[s].pc = "cleanup"
    /\ bs[s].todo[c] # 0
    /\ LET k == bs[s].todo[c]
           id == conns[k].connectID
       IN  /\ frontends' = removeFrontend(frontends, bs[s].agentID, id)
           /\ ts' = AdapterSocks(k, CloseRsp(id))
           /\ conns' = [conns EXCEPT ![k].synth = Cap2(@)]
    /\ bs' = [bs EXCEPT ![s].todo[c] = 0]
    /\ UNCHANGED <<backends, agentIDs, pendingDial, fs, proxyStrategy,
                   authEnabled, call, send, pipe, rng, panicked, npkts>>

\* serveRecvBackend returns.
CleanupDone(s) ==
    /\ ~panicked
    /\ bs[s].pc = "cleanup"
    /\ bs[s].todo = NoTodo
    /\ bs' = [bs EXCEPT ![s].pc = "done"]
    /\ UNCHANGED <<backends, agentIDs, pendingDial, frontends, conns, fs, ts,
                   proxyStrategy, authEnabled, call, send, pipe, rng, panicked, npkts>>

\* ------------------------------------------------------------ gRPC frontends
\* serveRecvFrontend, DIAL_REQ: `backend, err = s.BackendManager.Backend()`
\* assigns the handler's backend variable whatever the outcome (nil on error);
\* on success the record is created and added under the packet's nonce.  The
\* gRPC entry point binds no destIP in the context.
FrontendDialReq(f, r) ==
    /\ ~panicked
    /\ fs[f].pc = "recv"
    /\ \E b \in Backend(proxyStrategy, backends, agentIDs, "") :
          IF b = -1
          THEN /\ panicked' = TRUE
               /\ UNCHANGED <<fs, conns, pendingDial>>
          ELSE IF b = 0
          THEN /\ fs' = [fs EXCEPT ![f].backend = 0]
               /\ UNCHANGED <<conns, pendingDial, panicked>>
          ELSE /\ Len(conns) < MaxRecords
               /\ FirstNonce(r)
               /\ LET k == Len(conns) + 1
                      pd == PendingDialAdd(pendingDial, r, k)
                  IN  /\ pendingDial' = pd
                      /\ conns' = Append(conns,
                            [NewConn("grpc", f, b, r) EXCEPT !.added = (pd[r] = k)])
                      /\ fs' = [fs EXCEPT ![f].backend = b,
                                          ![f].pc = "dialSend", ![f].rec = k,
                                          ![f].latched = IF @ = 0 THEN b ELSE @]
               /\ UNCHANGED panicked
    /\ UNCHANGED <<backends, agentIDs, frontends, bs, ts, proxyStrategy,
                   authEnabled, call, send, pipe, rng, npkts>>

\* serveRecvFrontend, DIAL_REQ: backend.Send(pkt); a failure is only logged.
FrontendDialSend(f) ==
    /\ ~panicked
    /\ fs[f].pc = "dialSend"
    /\ LET b == fs[f].backend
       IN  /\ conns' = [conns EXCEPT ![fs[f].rec].dialSent =
                                        IF BackendSendOk(b) THEN b ELSE 0]
           /\ fs' = [fs EXCEPT ![f].pc = "recv", ![f].lastTo = b]
    /\ UNCHANGED <<backends, agentIDs, pendingDial, frontends, bs, ts,
                   proxyStrategy, authEnabled, call, send, pipe, rng, panicked, npkts>>

\* serveRecvFrontend, CLOSE_REQ: dropped when no backend is set, else sent.
FrontendCloseReq(f, c) ==
    /\ ~panicked
    /\ fs[f].pc = "recv"
    /\ fs' = [fs EXCEPT ![f].lastTo = IF fs[f].backend = 0 THEN @
                                      ELSE fs[f].backend]
    /\ UNCHANGED <<backends, agentIDs, pendingDial, frontends, conns, bs, ts,
                   proxyStrategy, authEnabled, call, send, pipe, rng, panicked, npkts>>

\* serveRecvFrontend, DATA: the first connID seen is kept; the packet is
\* dropped when no backend is set, else sent.
FrontendData(f, c) ==
    /\ ~panicked
    /\ fs[f].pc = "recv"
    /\ fs' = [fs EXCEPT ![f].firstConnID = IF @ = 0 THEN c ELSE @,
                        ![f].lastTo = IF fs[f].backend = 0 THEN @
                                      ELSE fs[f].backend]
    /\ UNCHANGED <<backends, agentIDs, pendingDial, frontends, conns, bs, ts,
                   proxyStrategy, authEnabled, call, send, pipe, rng, panicked, npkts>>

\* The frontend's stream ends: recvCh is closed and drained, and a CLOSE_REQ
\* carrying firstConnID is sent to the backend variable, unless it is nil.
FrontendEnd(f) ==
    /\ ~panicked
    /\ fs[f].pc = "recv"
    /\ fs' = [fs EXCEPT ![f].pc = "done",
                        ![f].synthTo = fs[f].backend,
                        ![f].synthID = IF fs[f].backend = 0 THEN 0
                                       ELSE fs[f].firstConnID,
                        ![f].lastTo = IF fs[f].backend = 0 THEN @
                                      ELSE fs[f].backend]
    /\ UNCHANGED <<backends, agentIDs, pendingDial, frontends, conns, bs, ts,
                   proxyStrategy, authEnabled, call, send, pipe, rng, panicked, npkts>>

\* ------------------------------------------------------------ HTTP CONNECT
\* What the CONNECT target's host binds as destIP in the context.
TunnelCtx(strategy, host) == IF strategy = "destIP" THEN host ELSE ""

\* In the handler's state, destIP is what the context binds and dataTo the
\* handle the last DATA was sent to (0: none yet).
\* Tunnel.ServeHTTP up to PendingDial.Add: the socket is hijacked, a nonce is
\* drawn, a backend is selected (none: the handler replies 500 and returns),
\* the record is created and added.
TunnelStart(t, host, r) ==
    /\ ~panicked
    /\ ts[t].pc = "idle"
    /\ \E b \in Backend(proxyStrategy, backends, agentIDs,
                        TunnelCtx(proxyStrategy, host)) :
          IF b = -1
          THEN /\ panicked' = TRUE
               /\ UNCHANGED <<ts, conns, pendingDial>>
          ELSE IF b = 0
          THEN /\ ts' = [ts EXCEPT ![t].pc = "done", ![t].sock = "open",
                                    ![t].destIP = TunnelCtx(proxyStrategy, host)]
               /\ UNCHANGED <<conns, pendingDial, panicked>>
          ELSE /\ Len(conns) < MaxRecords
               /\ FirstNonce(r)
               /\ LET k == Len(conns) + 1
                      pd == PendingDialAdd(pendingDial, r, k)
                  IN  /\ pendingDial' = pd
                      /\ conns' = Append(conns,
                            [NewConn("http-connect", t, b, r)
                                EXCEPT !.added = (pd[r] = k)])
                      /\ ts' = [ts EXCEPT ![t].pc = "dialSend",
                                          ![t].sock = "open",
                                          ![t].destIP =
                                              TunnelCtx(proxyStrategy, host),
                                          ![t].backend = b, ![t].rec = k]
               /\ UNCHANGED panicked
    /\ UNCHANGED <<backends, agentIDs, frontends, bs, fs, proxyStrategy,
                   authEnabled, call, send, pipe, rng, npkts>>

\* Tunnel.ServeHTTP: backend.Send(dialRequest); on failure the handler returns.
TunnelDialSend(t) ==
    /\ ~panicked
    /\ ts[t].pc = "dialSend"
    /\ LET b == ts[t].backend
       IN  IF BackendSendOk(b)
           THEN /\ conns' = [conns EXCEPT ![ts[t].rec].dialSent = b]
                /\ ts' = [ts EXCEPT ![t].pc = "wait"]
           ELSE /\ UNCHANGED conns
                /\ ts' = [ts EXCEPT ![t].pc = "done"]
    /\ UNCHANGED <<backends, agentIDs, pendingDial, frontends, bs, fs,
                   proxyStrategy, authEnabled, call, send, pipe, rng, panicked, npkts>>

\* The handler without the wait on connection.connected.
TunnelConnectedWithoutWait(t) ==
    /\ ~panicked
    /\ ts[t].pc = "wait"
    /\ ts' = [ts EXCEPT ![t].pc = "loop",
                        ![t].connID = conns[ts[t].rec].connectID,
                        ![t].agentID = conns[ts[t].rec].agentID]
    /\ UNCHANGED <<backends, agentIDs, pendingDial, frontends, conns, bs, fs,
                   proxyStrategy, authEnabled, call, send, pipe, rng, panicked, npkts>>

\* Tunnel.ServeHTTP: the wait on connection.connected; then conn.Close is
\* deferred and connectID and agentID are read from the record.
TunnelConnected(t) ==
    /\ ~panicked
    /\ ts[t].pc = "wait"
    /\ conns[ts[t].rec].connected >= 1
    /\ ts' = [ts EXCEPT ![t].pc = "loop",
                        ![t].connID = conns[ts[t].rec].connectID,
                        ![t].agentID = conns[ts[t].rec].agentID]
    /\ UNCHANGED <<backends, agentIDs, pendingDial, frontends, conns, bs, fs,
                   proxyStrategy, authEnabled, call, send, pipe, rng, panicked, npkts>>

\* Tunnel.ServeHTTP, the loop: a read returns data, which is sent as DATA
\* with the connID read after the wait; a failed send leaves the loop, and
\* the deferred conn.Close runs.
TunnelReadData(t) ==
    /\ ~panicked
    /\ ts[t].pc = "loop" /\ ts[t].sock = "open"
    /\ ts[t].reads < MaxTunnelReads
    /\ ts' = IF BackendSendOk(ts[t].backend)
             THEN [ts EXCEPT ![t].reads = @ + 1,
                             ![t].dataTo = ts[t].backend]
             ELSE [ts EXCEPT ![t].reads = @ + 1, ![t].pc = "done",
                             ![t].sock = "closed"]
    /\ UNCHANGED <<backends, agentIDs, pendingDial, frontends, conns, bs, fs,
                   proxyStrategy, authEnabled, call, send, pipe, rng, panicked, npkts>>

\* Tunnel.ServeHTTP, the loop: a read returns EOF or an error (the client
\* left, or the adapter closed the socket); the deferred conn.Close runs.
TunnelReadEnd(t) ==
    /\ ~panicked
    /\ ts[t].pc = "loop"
    /\ ts' = [ts EXCEPT ![t].pc = "done", ![t].sock = "closed"]
    /\ UNCHANGED <<backends, agentIDs, pendingDial, frontends, conns, bs, fs,
                   proxyStrategy, authEnabled, call, send, pipe, rng, panicked, npkts>>

\* ------------------------------------------------------------ specification
Hosts == AgentIDs \cup {"c"}

Next ==
    \/ \E s \in Streams, a \in AgentIDs, ok \in BOOLEAN : Connect(s, a, ok)
    \/ \E s \in Streams, ok \in BOOLEAN : Authenticate(s, ok)
    \/ \E s \in Streams : StreamEnd(s)
    \/ \E s \in Streams, r \in Nonces, c \in ConnIDs, e \in BOOLEAN :
          RecvDialRsp(s, r, c, e)
    \/ \E s \in Streams : DialRspForward(s)
    \/ \E s \in Streams : DialRspPromote(s)
    \/ \E s \in Streams : DialRspSignal(s)
    \/ \E s \in Streams, c \in ConnIDs : RecvData(s, c)
    \/ \E s \in Streams, c \in ConnIDs : RecvCloseRsp(s, c)
    \/ \E s \in Streams : CleanupList(s)
    \/ \E s \in Streams, c \in ConnIDs : CleanupOne(s, c)
    \/ \E s \in Streams : CleanupDone(s)
    \/ \E f \in Grpcs, r \in Nonces : FrontendDialReq(f, r)
    \/ \E f \in Grpcs : FrontendDialSend(f)
    \/ \E f \in Grpcs, c \in ConnIDs : FrontendCloseReq(f, c)
    \/ \E f \in Grpcs, c \in ConnIDs : FrontendData(f, c)
    \/ \E f \in Grpcs : FrontendEnd(f)
    \/ \E t \in Tunnels, h \in Hosts, r \in Nonces : TunnelStart(t, h, r)
    \/ \E t \in Tunnels : TunnelDialSend(t)
    \/ \E t \in Tunnels : TunnelConnected(t)
    \/ \E t \in Tunnels : TunnelReadData(t)
    \/ \E t \in Tunnels : TunnelReadEnd(t)

Spec == Init /\ [][Next]_vars

\* ------------------------------------------------------------ scenarios
\* The whole system is too large to enumerate; each property is checked on
\* the sub-system of the handlers it is about.

\* The backend stream handler's DIAL_RSP path.
DialRspSteps ==
    \/ \E s \in Streams, r \in Nonces, c \in ConnIDs, e \in BOOLEAN :
          RecvDialRsp(s, r, c, e)
    \/ \E s \in Streams : DialRspForward(s)
    \/ \E s \in Streams : DialRspPromote(s)
    \/ \E s \in Streams : DialRspSignal(s)

\* The disconnect of an agent and the cleanup that follows.
DisconnectSteps ==
    \/ \E s \in Streams : StreamEnd(s)
    \/ \E s \in Streams : CleanupList(s)
    \/ \E s \in Streams, c \in ConnIDs : CleanupOne(s, c)
    \/ \E s \in Streams : CleanupDone(s)

\* The dial of either entry point.
DialSteps ==
    \/ \E f \in Grpcs, r \in Nonces : FrontendDialReq(f, r)
    \/ \E f \in Grpcs : FrontendDialSend(f)
    \/ \E t \in Tunnels, h \in Hosts, r \in Nonces : TunnelStart(t, h, r)
    \/ \E t \in Tunnels : TunnelDialSend(t)
    \/ \E t \in Tunnels : TunnelConnected(t)

\* Dials of both entry points answered on the agent streams.
NextDial ==
    \/ \E s \in Streams, a \in AgentIDs : Connect(s, a, TRUE)
    \/ DialSteps
    \/ DialRspSteps
    \/ \E f \in Grpcs : FrontendEnd(f)
    \/ \E t \in Tunnels : TunnelReadEnd(t)

SpecDial == InitWith("default", {FALSE}) /\ [][NextDial]_vars

\* HTTP CONNECT dials, their answers, and agents that disconnect.
NextCleanup ==
    \/ \E s \in Streams, a \in AgentIDs : Connect(s, a, TRUE)
    \/ \E t \in Tunnels, h \in Hosts, r \in Nonces : TunnelStart(t, h, r)
    \/ \E t \in Tunnels : TunnelDialSend(t)
    \/ \E t \in Tunnels : TunnelConnected(t)
    \/ \E t \in Tunnels : TunnelReadEnd(t)
    \/ DialRspSteps
    \/ \E s \in Streams, c \in ConnIDs : RecvCloseRsp(s, c)
    \/ DisconnectSteps

SpecCleanup == InitWith("default", {FALSE}) /\ [][NextCleanup]_vars

\* The same, with the dials of a gRPC frontend beside the tunnel's.
NextDisconnect ==
    \/ NextCleanup
    \/ \E f \in Grpcs, r \in Nonces : FrontendDialReq(f, r)
    \/ \E f \in Grpcs : FrontendDialSend(f)

SpecDisconnect == InitWith("default", {FALSE}) /\ [][NextDisconnect]_vars

\* Agents that connect with the authentication enabled, and dials.
NextAuth ==
    \/ \E s \in Streams, a \in AgentIDs, ok \in BOOLEAN : Connect(s, a, ok)
    \/ \E s \in Streams, ok \in BOOLEAN : Authenticate(s, ok)
    \/ \E s \in Streams : StreamEnd(s)
    \/ \E f \in Grpcs, r \in Nonces : FrontendDialReq(f, r)
    \/ \E f \in Grpcs : FrontendDialSend(f)
    \/ \E t \in Tunnels, h \in Hosts, r \in Nonces : TunnelStart(t, h, r)
    \/ \E t \in Tunnels : TunnelDialSend(t)

SpecAuth == InitWith("default", {TRUE}) /\ [][NextAuth]_vars

\* One gRPC frontend stream, from its first packet to its end.
NextFrontend ==
    \/ \E s \in Streams, a \in AgentIDs : Connect(s, a, TRUE)
    \/ \E s \in Streams : StreamEnd(s)
    \/ DialRspSteps
    \/ \E f \in Grpcs, r \in Nonces : FrontendDialReq(f, r)
    \/ \E f \in Grpcs : FrontendDialSend(f)
    \/ \E f \in Grpcs, c \in ConnIDs : FrontendCloseReq(f, c)
    \/ \E f \in Grpcs, c \in ConnIDs : FrontendData(f, c)
    \/ \E f \in Grpcs : FrontendEnd(f)

SpecFrontend == InitWith("default", {FALSE}) /\ [][NextFrontend]_vars

\* An HTTP CONNECT tunnel from its dial to the end of its stream, under
\* either strategy, with the packets of the agents.
NextTunnel ==
    \/ \E s \in Streams, a \in AgentIDs : Connect(s, a, TRUE)
    \/ \E s \in Streams : StreamEnd(s)
    \/ \E t \in Tunnels, h \in Hosts, r \in Nonces : TunnelStart(t, h, r)
    \/ \E t \in Tunnels : TunnelDialSend(t)
    \/ \E t \in Tunnels : TunnelConnected(t)
    \/ \E t \in Tunnels : TunnelReadData(t)
    \/ \E t \in Tunnels : TunnelReadEnd(t)
    \/ DialRspSteps
    \/ \E s \in Streams, c \in ConnIDs : RecvData(s, c)
    \/ \E s \in Streams, c \in ConnIDs : RecvCloseRsp(s, c)

SpecTunnel ==
    /\ InitWith("default", {FALSE}) \/ InitWith("destIP", {FALSE})
    /\ [][NextTunnel]_vars

\* The same, where a handler, a client or an agent that can take a step
\* eventually takes one.
SpecTunnelFair == SpecTunnel /\ WF_vars(NextTunnel)

\* ------------------------------------------------------------ happy path
\* One gRPC frontend and one agent "a" (over one or two streams) that keep to
\* the protocol: the frontend dials once, sends DATA for the connID of the
\* DIAL_RSP it got, and closes after the agent's DATA; the agent answers the
\* DIAL_REQ with an error-free DIAL_RSP, sends DATA for its connID, once or
\* more, while the frontend is there, and answers the CLOSE_REQ with a
\* CLOSE_RSP.

\* The record of the frontend's dial that stream s was sent the DIAL_REQ of.
DialledOn(s) == {k \in DOMAIN conns : conns[k].dialSent = s}

HappyDialReq(f, r) ==
    /\ conns = <<>>
    /\ NumBackends(backends) > 0
    /\ FrontendDialReq(f, r)

HappyDialRsp(s, c) ==
    \E k \in DialledOn(s) :
        /\ conns[k].ans = "none"
        /\ ServeDialRsp(s, conns[k].random, c, FALSE)

\* The connID of the DIAL_RSP that was forwarded for record k: the packet's,
\* while its handler has not yet stored it in the record.
ForwardedConnID(k) ==
    IF \E s \in Streams : bs[s].frontend = k /\ bs[s].pkt.type = "DIAL_RSP"
    THEN LET s == CHOOSE s \in Streams :
                      bs[s].frontend = k /\ bs[s].pkt.type = "DIAL_RSP"
         IN  bs[s].pkt.connectID
    ELSE conns[k].connectID

HappyFrontendData(f) ==
    /\ fs[f].rec # 0 /\ conns[fs[f].rec].okRsp
    /\ fs[f].firstConnID = 0
    /\ FrontendData(f, ForwardedConnID(fs[f].rec))

HappyAgentData(s) ==
    \E k \in DialledOn(s) :
        /\ conns[k].connected >= 1
        /\ npkts <= MaxHappyData
        /\ fs[conns[k].owner].pc # "done"
        /\ ServeData(s, conns[k].connectID)

HappyFrontendEnd(f) ==
    /\ fs[f].firstConnID # 0
    /\ npkts >= 2
    /\ FrontendEnd(f)

HappyCloseRsp(s) ==
    \E f \in Grpcs :
        /\ fs[f].pc = "done" /\ fs[f].synthTo = s
        /\ \A k \in DialledOn(s) : ~conns[k].tornDown
        /\ npkts <= MaxHappyData + 1
        /\ ServeCloseRsp(s, fs[f].synthID)

NextHappy ==
    \/ \E s \in Streams : Connect(s, "a", TRUE)
    \/ \E s \in Streams : Authenticate(s, TRUE)
    \/ \E f \in Grpcs, r \in Nonces : HappyDialReq(f, r)
    \/ \E f \in Grpcs : FrontendDialSend(f)
    \/ \E s \in Streams, c \in ConnIDs : HappyDialRsp(s, c)
    \/ \E s \in Streams : DialRspForward(s)
    \/ \E s \in Streams : DialRspPromote(s)
    \/ \E s \in Streams : DialRspSignal(s)
    \/ \E f \in Grpcs : HappyFrontendData(f)
    \/ \E s \in Streams : HappyAgentData(s)
    \/ \E f \in Grpcs : HappyFrontendEnd(f)
    \/ \E s \in Streams : HappyCloseRsp(s)

\* Every handler, the frontend and the agent that can take a step
\* eventually takes one.
SpecHappy ==
    /\ InitWith("default", BOOLEAN)
    /\ [][NextHappy]_vars
    /\ WF_vars(NextHappy)

\* ------------------------------------------------------------ reader and handler
\* Proxy (frontend) and Connect (backend), from make(chan, 10) on, with the
\* handler's loop over recvCh.  Nothing else of the server is touched.
PipeIdle ==
    UNCHANGED <<backends, agentIDs, pendingDial, frontends, conns, bs, fs, ts,
                proxyStrategy, authEnabled, call, send, rng, panicked, npkts>>

\* A channel that hands out the newest packet first.
ChanPutFront(ch, x) == <<x>> \o ch

\* recvCh <- in on a channel that has room.
ChanPut(ch, x) == Append(ch, x)

\* Proxy or Connect makes recvCh and starts the handler and the reader.
PipeStart(kind) ==
    /\ pipe.kind = ""
    /\ pipe' = [pipe EXCEPT !.kind = kind, !.rd = "recv", !.hd = "loop"]
    /\ PipeIdle

\* stream.Recv returns the next packet.
PipeRecv ==
    /\ pipe.rd = "recv"
    /\ pipe.in < MaxArrivals
    /\ pipe' = [pipe EXCEPT !.in = @ + 1, !.hold = pipe.in + 1, !.rd = "push"]
    /\ PipeIdle

\* recvCh <- in: blocks while the channel is full.
PipePush ==
    /\ pipe.rd = "push"
    /\ Len(pipe.ch) < ChanDepth
    /\ pipe' = [pipe EXCEPT !.ch = ChanPut(pipe.ch, pipe.hold), !.hold = 0,
                            !.rd = "recv"]
    /\ PipeIdle

\* stream.Recv returns io.EOF or an error: close(stopCh), the reader returns.
PipeEOF ==
    /\ pipe.rd = "recv"
    /\ pipe' = [pipe EXCEPT !.rd = "returned"]
    /\ PipeIdle

\* Proxy or Connect returns from <-stopCh; its deferred close(recvCh) runs.
PipeClose ==
    /\ pipe.rd = "returned" /\ ~pipe.closed
    /\ pipe' = [pipe EXCEPT !.closed = TRUE]
    /\ PipeIdle

\* for pkt := range recvCh: the handler receives the packet at the head of
\* the channel and handles it, its forward included, before the next.
PipeHandle ==
    /\ pipe.hd = "loop"
    /\ pipe.ch # <<>>
    /\ pipe' = [pipe EXCEPT !.ch = Tail(pipe.ch),
                            !.out = Append(pipe.out, Head(pipe.ch))]
    /\ PipeIdle

\* The range ends: recvCh is closed and empty.
PipeDone ==
    /\ pipe.hd = "loop"
    /\ pipe.closed /\ pipe.ch = <<>>
    /\ pipe' = [pipe EXCEPT !.hd = "done"]
    /\ PipeIdle

NextPipe ==
    \/ \E kind \in PipeKinds : PipeStart(kind)
    \/ PipeRecv
    \/ PipePush
    \/ PipeEOF
    \/ PipeClose
    \/ PipeHandle
    \/ PipeDone

SpecPipe == InitWith("default", {FALSE}) /\ [][NextPipe]_vars

\* ------------------------------------------------------------ concurrent selection
\* GetRandomBackend and AddBackend, statement by statement, for callers that
\* run concurrently: s.mu is a sync.RWMutex, s.random a *rand.Rand whose
\* Intn reads the generator's state and writes the next one.
RngIdle ==
    UNCHANGED <<pendingDial, frontends, conns, bs, fs, ts, proxyStrategy,
                authEnabled, call, send, pipe, panicked, npkts>>

\* GetRandomBackend: s.mu.RLock() returns; no writer holds the lock.
RandRLock(p) ==
    /\ rng.at[p] = "idle"
    /\ rng.writer = 0
    /\ rng' = [rng EXCEPT !.readers = @ \cup {p}, !.at[p] = "rlocked"]
    /\ UNCHANGED <<backends, agentIDs>>
    /\ RngIdle

\* GetRandomBackend: len(s.backends) == 0, nil is returned; the deferred
\* RUnlock runs.
RandNone(p) ==
    /\ rng.at[p] = "rlocked"
    /\ NumBackends(backends) = 0
    /\ rng' = [rng EXCEPT !.readers = @ \ {p}, !.at[p] = "idle"]
    /\ UNCHANGED <<backends, agentIDs>>
    /\ RngIdle

\* GetRandomBackend: s.random.Intn(...) reads the generator's state.
RandIntnRead(p) ==
    /\ rng.at[p] = "rlocked"
    /\ NumBackends(backends) # 0
    /\ rng.state < MaxDraws
    /\ rng' = [rng EXCEPT !.at[p] = "read", !.seen[p] = rng.state]
    /\ UNCHANGED <<backends, agentIDs>>
    /\ RngIdle

\* GetRandomBackend: s.random.Intn(...) writes the next state and returns.
RandIntnWrite(p) ==
    /\ rng.at[p] = "read"
    /\ rng' = [rng EXCEPT !.at[p] = "drawn", !.state = rng.seen[p] + 1]
    /\ UNCHANGED <<backends, agentIDs>>
    /\ RngIdle

\* GetRandomBackend returns s.backends[agentID][0]; the deferred RUnlock runs.
RandRUnlock(p) ==
    /\ rng.at[p] = "drawn"
    /\ rng' = [rng EXCEPT !.readers = @ \ {p}, !.at[p] = "idle",
                          !.seen[p] = 0]
    /\ UNCHANGED <<backends, agentIDs>>
    /\ RngIdle

\* AddBackend: s.mu.Lock() returns; nobody holds the lock.
StoreLock(p) ==
    /\ rng.at[p] = "idle"
    /\ rng.writer = 0 /\ rng.readers = {}
    /\ rng' = [rng EXCEPT !.writer = p, !.at[p] = "wlocked"]
    /\ UNCHANGED <<backends, agentIDs>>
    /\ RngIdle

\* AddBackend(agentID, conn) under the lock; the deferred Unlock runs.
StoreAdd(p, a, c) ==
    /\ rng.at[p] = "wlocked"
    /\ backends' = AddBackendMap(backends, a, c)
    /\ agentIDs' = AddBackendIDs(backends, agentIDs, a)
    /\ rng' = [rng EXCEPT !.writer = 0, !.at[p] = "idle"]
    /\ RngIdle

NextRng ==
    \/ \E p \in Callers : RandRLock(p)
    \/ \E p \in Callers : RandNone(p)
    \/ \E p \in Callers : RandIntnRead(p)
    \/ \E p \in Callers : RandIntnWrite(p)
    \/ \E p \in Callers : RandRUnlock(p)
    \/ \E p \in Callers : StoreLock(p)
    \/ \E p \in Callers, a \in AgentIDs, c \in Streams : StoreAdd(p, a, c)

SpecRng == InitWith("default", {FALSE}) /\ [][NextRng]_vars

\* ------------------------------------------------------------ concurrent Send
\* backend.Send, statement by statement, for callers that run concurrently.
\* Everything but the mutexes and the agent streams is left alone.
SendIdle ==
    UNCHANGED <<backends, agentIDs, pendingDial, frontends, conns, bs, fs, ts,
                proxyStrategy, authEnabled, call, panicked, npkts, pipe, rng>>

\* The packets handed to handle h so far: written, or with a caller on its
\* way to write them.
SendsOn(h) ==
    Cardinality({i \in 1..Len(send.wire[h]) : send.wire[h][i][1] = "begin"})
    + Cardinality({p \in Senders :
                      send.h[p] = h /\ send.at[p] \in {"lock", "send"}})

\* A handler calls backend.Send(p) on handle h.
SendCall(p, h) ==
    /\ send.at[p] = "idle"
    /\ SendsOn(h) < MaxSends
    /\ send' = [send EXCEPT !.at[p] = "lock", !.h[p] = h]
    /\ SendIdle

\* A Send that takes the mutex whether or not it is free.
SendLockUnguarded(p) ==
    /\ send.at[p] = "lock"
    /\ send' = [send EXCEPT !.at[p] = "send", !.mu[send.h[p]] = p]
    /\ SendIdle

\* b.mu.Lock() returns: the mutex was free.
SendLock(p) ==
    /\ send.at[p] = "lock"
    /\ send.mu[send.h[p]] = 0
    /\ send' = [send EXCEPT !.at[p] = "send", !.mu[send.h[p]] = p]
    /\ SendIdle

\* b.conn.Send(p) starts writing the packet to the stream.
SendBegin(p) ==
    /\ send.at[p] = "send"
    /\ send' = [send EXCEPT !.at[p] = "in",
                            !.wire[send.h[p]] = Append(@, <<"begin", p>>)]
    /\ SendIdle

\* b.conn.Send(p) returns: the packet is written.
SendEnd(p) ==
    /\ send.at[p] = "in"
    /\ send' = [send EXCEPT !.at[p] = "out",
                            !.wire[send.h[p]] = Append(@, <<"end", p>>)]
    /\ SendIdle

\* The deferred b.mu.Unlock().
SendUnlock(p) ==
    /\ send.at[p] = "out"
    /\ send' = [send EXCEPT !.at[p] = "idle", !.mu[send.h[p]] = 0]
    /\ SendIdle

NextSend ==
    \/ \E p \in Senders, h \in Streams : SendCall(p, h)
    \/ \E p \in Senders : SendLock(p)
    \/ \E p \in Senders : SendBegin(p)
    \/ \E p \in Senders : SendEnd(p)
    \/ \E p \in Senders : SendUnlock(p)

SpecSend == InitWith("default", {FALSE}) /\ [][NextSend]_vars

\* ------------------------------------------------------------ direct calls
\* The methods of the Backend Storage, of the Backend Manager and of the send
\* adapter called directly, one call at a time (each holds the storage's
\* lock for its whole body), with any arguments.

\* DefaultBackendStorage.AddBackend(agentID, conn).
CallAddBackend(a, c) ==
    /\ ~panicked
    /\ backends' = AddBackendMap(backends, a, c)
    /\ agentIDs' = AddBackendIDs(backends, agentIDs, a)
    /\ call' = [NoCall EXCEPT !.op = "AddBackend", !.agentID = a, !.conn = c,
                              !.ret = c]
    /\ UNCHANGED <<pendingDial, frontends, conns, bs, fs, ts, proxyStrategy,
                   authEnabled, panicked, npkts, send, pipe, rng>>

\* DefaultBackendStorage.RemoveBackend(agentID, conn).
CallRemoveBackend(a, c) ==
    /\ ~panicked
    /\ backends' = RemoveBackendMap(backends, a, c)
    /\ agentIDs' = RemoveBackendIDs(backends, agentIDs, a, c)
    /\ call' = [NoCall EXCEPT !.op = "RemoveBackend", !.agentID = a,
                              !.conn = c]
    /\ UNCHANGED <<pendingDial, frontends, conns, bs, fs, ts, proxyStrategy,
                   authEnabled, panicked, npkts, send, pipe, rng>>

\* DefaultBackendStorage.NumBackends().
CallNumBackends ==
    /\ ~panicked
    /\ call' = [NoCall EXCEPT !.op = "NumBackends",
                              !.ret = NumBackends(backends)]
    /\ UNCHANGED <<backends, agentIDs, pendingDial, frontends, conns, bs, fs,
                   ts, proxyStrategy, authEnabled, panicked, npkts, send, pipe, rng>>

\* DefaultBackendStorage.GetBackend(agentID).
CallGetBackend(a) ==
    /\ ~panicked
    /\ LET b == GetBackend(backends, a)
       IN  /\ call' = [NoCall EXCEPT !.op = "GetBackend", !.agentID = a,
                                     !.ret = b]
           /\ panicked' = (b = -1)
    /\ UNCHANGED <<backends, agentIDs, pendingDial, frontends, conns, bs, fs,
                   ts, proxyStrategy, authEnabled, npkts, send, pipe, rng>>

\* DefaultBackendStorage.GetRandomBackend().
CallGetRandomBackend ==
    /\ ~panicked
    /\ \E b \in GetRandomBackend(backends, agentIDs) :
          /\ call' = [NoCall EXCEPT !.op = "GetRandomBackend", !.ret = b]
          /\ panicked' = (b = -1)
    /\ UNCHANGED <<backends, agentIDs, pendingDial, frontends, conns, bs, fs,
                   ts, proxyStrategy, authEnabled, npkts, send, pipe, rng>>

\* BackendManager.Backend(ctx) of the configured strategy; destIP is the
\* string bound in ctx ("": none bound).
CallBackend(destIP) ==
    /\ ~panicked
    /\ \E b \in Backend(proxyStrategy, backends, agentIDs, destIP) :
          /\ call' = [NoCall EXCEPT !.op = "Backend", !.agentID = destIP,
                                    !.ret = b]
          /\ panicked' = (b = -1)
    /\ UNCHANGED <<backends, agentIDs, pendingDial, frontends, conns, bs, fs,
                   ts, proxyStrategy, authEnabled, npkts, send, pipe, rng>>

\* ProxyClientConnection.send(pkt) on a record of the given mode.
CallSend(mode, ptype, hasError) ==
    /\ ~panicked
    /\ call' = [NoCall EXCEPT !.op = "send", !.mode = mode, !.ptype = ptype,
                              !.error = hasError,
                              !.ret = AdapterAction(mode, ptype, hasError)]
    /\ UNCHANGED <<backends, agentIDs, pendingDial, frontends, conns, bs, fs,
                   ts, proxyStrategy, authEnabled, panicked, npkts, send, pipe, rng>>

NextCalls ==
    \/ \E a \in AgentIDs, c \in Streams : CallAddBackend(a, c)
    \/ \E a \in AgentIDs, c \in Streams : CallRemoveBackend(a, c)
    \/ CallNumBackends
    \/ \E a \in AgentIDs : CallGetBackend(a)
    \/ CallGetRandomBackend
    \/ \E d \in AgentIDs \cup {""} : CallBackend(d)
    \/ \E m \in Modes, p \in PacketTypes, e \in BOOLEAN : CallSend(m, p, e)

SpecCalls == InitWith("destIP", {FALSE}) /\ [][NextCalls]_vars

\* ------------------------------------------------------------ properties
ConnIds == DOMAIN conns

Registered(s) == \E a \in DOMAIN backends : SeqHas(backends[a], s)

\* C1: in every reachable state, no record is at the same time in the
\* Pending-Dial Table and in the Frontend Registry.
C1_NeverPendingAndEstablished ==
    \A k \in ConnIds : ~(InPending(pendingDial, k) /\ InRegistry(frontends, k))

\* A record that was added to the Pending-Dial Table, was found there by a
\* DIAL_RSP and now is in the Frontend Registry with its latch signalled.
C1_Witness ==
    \E k \in ConnIds :
        /\ conns[k].added /\ conns[k].found
        /\ InRegistry(frontends, k) /\ ~InPending(pendingDial, k)
        /\ conns[k].connected = 1

\* C2: the established-latch of a record is signalled at most once.  Stated
\* for the records whose DIAL_REQ was sent and then answered on that stream.
C2_LatchSignalledAtMostOnce ==
    \A k \in ConnIds : conns[k].ans = "hit" => conns[k].connected <= 1

DialFails(s) ==
    /\ bs[s].pc = "dialSend"
    /\ bs[s].pkt.error \/ ~AdapterOk(bs[s].frontend, bs[s].pkt)

\* C4: a DIAL_RSP with an error, or one whose forward fails, is passed to the
\* record's adapter, the pending entry is removed, nothing is added to the
\* Frontend Registry and no latch is signalled; and only a record to which an
\* error-free DIAL_RSP was forwarded is in the Frontend Registry.
C4_FailedDialNotPromoted ==
    /\ [][\A s \in Streams :
            (DialFails(s) /\ bs'[s] # bs[s]) =>
                /\ conns'[bs[s].frontend].dialRsp = Cap2(conns[bs[s].frontend].dialRsp)
                /\ pendingDial'[bs[s].pkt.random] = 0
                /\ frontends' = frontends
                /\ \A k \in ConnIds : conns'[k].connected = conns[k].connected
                /\ bs'[s].pc = "recv"]_vars
    /\ [](\A k \in ConnIds : InRegistry(frontends, k) => conns[k].okRsp)

\* A record whose only DIAL_RSP carried an error or could not be forwarded:
\* it is in neither table and its latch is not signalled.
C4_Witness ==
    \E k \in ConnIds :
        /\ conns[k].dialRsp = 1 /\ ~conns[k].okRsp
        /\ ~InPending(pendingDial, k) /\ ~InRegistry(frontends, k)
        /\ conns[k].connected = 0
        /\ \A s \in Streams : bs[s].frontend # k

\* The handler of stream s takes a step of its cleanup.
CleanupStep(s) ==
    /\ bs[s].pc \in {"recv", "cleanup"} /\ ~bs[s].open
    /\ bs'[s] # bs[s]

\* C5: the cleanup of handle s (agentID a) touches only the records under a
\* whose backend is s: every other entry of the Frontend Registry stays, and
\* its record is sent no CLOSE_RSP.  Stated for the runs in which no record
\* was answered by more than one DIAL_RSP, and none before its DIAL_REQ was
\* sent.
C5_CleanupSparesOtherHandles ==
    [][\A s \in Streams :
          (/\ CleanupStep(s)
           /\ \A j \in ConnIds :
                 /\ conns[j].dialRsp <= 1
                 /\ conns[j].found => conns[j].ans = "hit") =>
              \A a \in AgentIDs, c \in ConnIDs :
                  LET k == frontends[a][c]
                  IN  (k # 0 /\ ~(a = bs[s].agentID /\ conns[k].backend = s)) =>
                          /\ frontends'[a][c] = k
                          /\ conns'[k].synth = conns[k].synth]_vars

\* C6: once the cleanup of handle s has completed, every record that was
\* promoted with backend s, and that no CLOSE_RSP has torn down, is out of the
\* Frontend Registry and was sent one synthesised CLOSE_RSP.  Stated for the
\* records whose DIAL_REQ was sent and then answered on that stream, in the
\* runs in which no record was answered by more than one DIAL_RSP.
C6_DisconnectClosesEveryFrontend ==
    \A s \in Streams :
        (bs[s].pc = "done" /\ \A j \in ConnIds : conns[j].dialRsp <= 1) =>
            \A k \in ConnIds :
                (/\ conns[k].promoted = s /\ ~conns[k].tornDown
                 /\ conns[k].ans = "hit") =>
                    (~InRegistry(frontends, k) /\ conns[k].synth = 1)

\* C7: the agent-disconnect cleanup leaves the Pending-Dial Table unchanged
\* and signals no latch.
C7_CleanupLeavesPending ==
    [][\A s \in Streams :
          CleanupStep(s) =>
              /\ pendingDial' = pendingDial
              /\ \A k \in ConnIds : conns'[k].connected = conns[k].connected]_vars

\* The cleanup of handle s has completed, and an HTTP CONNECT handler still
\* waits on the latch of its pending record, whose backend is s.
C7_Witness ==
    \E s \in Streams, k \in ConnIds :
        /\ bs[s].pc = "done"
        /\ conns[k].backend = s /\ conns[k].Mode = "http-connect"
        /\ InPending(pendingDial, k) /\ conns[k].connected = 0
        /\ ts[conns[k].owner].pc = "wait"

\* C8: with the authentication enabled, a handle is in the Backend Storage
\* only after its stream's authentication succeeded, and no DIAL_REQ was sent
\* on a stream that failed it.
C8_RegisteredOnlyAfterAuth ==
    /\ \A s \in Streams : Registered(s) => bs[s].auth = "ok"
    /\ \A k \in ConnIds :
          conns[k].dialSent # 0 => bs[conns[k].dialSent].auth # "failed"

\* C9: the CLOSE_REQ sent when a gRPC frontend stream ends carries the connID
\* of the connection established for that stream, by the answer to a
\* DIAL_REQ that was sent.
C9_SyntheticCloseCarriesConnID ==
    \A f \in Grpcs :
        (fs[f].pc = "done" /\ fs[f].synthTo # 0) =>
            \A k \in ConnIds :
                (/\ conns[k].Mode = "grpc" /\ conns[k].owner = f
                 /\ conns[k].ans = "hit" /\ conns[k].connected >= 1) =>
                    fs[f].synthID = conns[k].connectID

\* C10: once a DIAL_REQ has latched a backend, the handler's backend stays
\* that backend, and every packet it forwards goes there.
C10_BackendStaysLatched ==
    \A f \in Grpcs :
        fs[f].latched # 0 =>
            /\ fs[f].backend = fs[f].latched
            /\ fs[f].lastTo \in {0, fs[f].latched}

\* C11: a dial made while no agent is registered fails its backend selection:
\* it creates no record, leaves the Pending-Dial Table and every other table
\* unchanged and sends nothing; the gRPC handler stays in its packet loop and
\* the HTTP CONNECT handler returns.
C11_FailedSelectionDialsNothing ==
    [][NumBackends(backends) = 0 =>
          /\ \A f \in Grpcs, r \in Nonces :
                FrontendDialReq(f, r) =>
                    /\ pendingDial' = pendingDial /\ conns' = conns
                    /\ frontends' = frontends /\ bs' = bs /\ ts' = ts
                    /\ fs'[f].pc = "recv" /\ fs'[f].backend = 0
                    /\ fs'[f].lastTo = fs[f].lastTo
                    /\ ~panicked'
          /\ \A t \in Tunnels, h \in Hosts, r \in Nonces :
                TunnelStart(t, h, r) =>
                    /\ pendingDial' = pendingDial /\ conns' = conns
                    /\ frontends' = frontends /\ bs' = bs /\ fs' = fs
                    /\ ts'[t].pc = "done" /\ ts'[t].backend = 0
                    /\ ts'[t].rec = 0
                    /\ ~panicked']_vars

\* No agent is registered, the tunnel's dial has failed and the handler has
\* returned with no record, and a dial of the gRPC frontend made after its
\* backend left has failed and left the handler in its loop.
C11_Witness ==
    /\ NumBackends(backends) = 0
    /\ \E t \in Tunnels :
          ts[t].pc = "done" /\ ts[t].backend = 0 /\ ts[t].rec = 0
    /\ \E f \in Grpcs :
          fs[f].latched # 0 /\ fs[f].backend = 0 /\ fs[f].pc = "recv"
    /\ pendingDial[2] = 0 /\ Len(conns) = 1

\* C12: under the destination-affinity strategy Backend(ctx) never faults, and
\* for a destIP that names no registered agent, or with no destIP bound, it
\* returns an error and no handle.
C12_DestIPBackendReturnsError ==
    call.op = "Backend" =>
        /\ call.ret # -1
        /\ call.agentID \notin DOMAIN backends => call.ret = 0

\* C13: after any sequence of AddBackend and RemoveBackend calls the agentIDs
\* slice holds exactly the keys of the map, each once; every registered agent
\* has a non-empty handle list; NumBackends is the number of distinct
\* registered agentIDs.
C13_StorageConsistent ==
    /\ {agentIDs[i] : i \in 1..Len(agentIDs)} = DOMAIN backends
    /\ \A i, j \in 1..Len(agentIDs) : agentIDs[i] = agentIDs[j] => i = j
    /\ \A a \in DOMAIN backends : Len(backends[a]) > 0
    /\ NumBackends(backends) = Cardinality({agentIDs[i] : i \in 1..Len(agentIDs)})
    /\ call.op = "NumBackends" => call.ret = Len(agentIDs)

\* The first registered agent has just been removed while a later one, with
\* two streams, stays.
C13_Witness ==
    /\ call.op = "RemoveBackend" /\ call.agentID = "a"
    /\ agentIDs = <<"b">>
    /\ "b" \in DOMAIN backends /\ Len(backends["b"]) = 2

\* C14: GetRandomBackend returns nil exactly when no agent is registered, and
\* otherwise the index-0 handle of an agent registered at the time of the call.
C14_RandomBackendIsFirstOfRegistered ==
    call.op = "GetRandomBackend" =>
        /\ call.ret = 0 <=> DOMAIN backends = {}
        /\ call.ret # 0 =>
              \E a \in DOMAIN backends :
                  Len(backends[a]) > 0 /\ call.ret = backends[a][1]

\* A call that returned the only handle, stream 2, of one of two registered
\* agents.
C14_Witness ==
    /\ call.op = "GetRandomBackend" /\ call.ret = 2
    /\ Cardinality(DOMAIN backends) = 2
    /\ \E a \in DOMAIN backends : backends[a] = <<2>>

\* C19: the send adapter maps (mode, packet variant) to its action: grpc
\* forwards every packet; http-connect writes the payload of DATA, closes the
\* socket for CLOSE_RSP and for DIAL_RSP with an error, does nothing for
\* DIAL_RSP without error and fails as unsupported for any other variant;
\* any other mode fails as unknown.
C19_SendAdapterTable ==
    call.op = "send" =>
        /\ call.mode = "grpc" => call.ret = "forward"
        /\ call.mode = "http-connect" =>
              /\ call.ptype = "DATA" => call.ret = "write"
              /\ call.ptype = "CLOSE_RSP" => call.ret = "close"
              /\ call.ptype = "DIAL_RSP" /\ call.error => call.ret = "close"
              /\ call.ptype = "DIAL_RSP" /\ ~call.error => call.ret = "noop"
              /\ call.ptype \notin {"DATA", "CLOSE_RSP", "DIAL_RSP"} =>
                    call.ret = "unsupported"
        /\ call.mode \notin {"grpc", "http-connect"} => call.ret = "unknown-mode"

C19_Witness ==
    /\ call.op = "send" /\ call.mode = "http-connect"
    /\ call.ptype = "DIAL_RSP" /\ call.error /\ call.ret = "close"

PacketDropped ==
    /\ pendingDial' = pendingDial
    /\ frontends' = frontends
    /\ bs' = bs /\ fs' = fs /\ ts' = ts
    /\ backends' = backends
    /\ ~panicked'

\* C18: a packet the backend stream handler cannot deliver (a DIAL_RSP with an
\* unknown nonce, a DATA or CLOSE_RSP for an (agentID, connID) that is not in
\* the Frontend Registry, a DATA whose forward fails) leaves the Pending-Dial
\* Table and the Frontend Registry as they are, ends no stream and closes no
\* socket, and the handler stays in its loop.
C18_PacketErrorsChangeNoTable ==
    [][\A s \in Streams, c \in ConnIDs :
          /\ \A r \in Nonces, e \in BOOLEAN :
                RecvDialRsp(s, r, c, e) /\ PendingDialGet(pendingDial, r) = 0
                    => PacketDropped
          /\ RecvData(s, c) /\ getFrontend(frontends, bs[s].agentID, c) = 0
                => PacketDropped
          /\ ( /\ RecvData(s, c)
               /\ getFrontend(frontends, bs[s].agentID, c) # 0
               /\ ~AdapterOk(getFrontend(frontends, bs[s].agentID, c), Data(c)) )
                => PacketDropped
          /\ RecvCloseRsp(s, c) /\ getFrontend(frontends, bs[s].agentID, c) = 0
                => PacketDropped]_vars

\* Two packets have arrived while no record had ever been found by a
\* DIAL_RSP, so both were dropped; a dial is still pending and the handler
\* is in its loop.
C18_Witness ==
    /\ npkts = 2
    /\ conns # <<>> /\ \A k \in DOMAIN conns : ~conns[k].found
    /\ \E r \in Nonces : pendingDial[r] # 0
    /\ \E s \in Streams : bs[s].pc = "recv" /\ bs[s].open

\* C20: a tunnel handler sends no DATA before the latch of its record has
\* been signalled; the connID its DATA carries is the one the record held
\* when the handler passed the latch, which only a promoting DIAL_RSP sets,
\* to the connID that DIAL_RSP carries; and when a handler signals the latch
\* the record has its connID and agentID set and has been inserted in the
\* Frontend Registry under the key of a promoting DIAL_RSP.
C20_DataOnlyAfterLatch ==
    /\ [](\A t \in Tunnels :
            ts[t].pc = "loop" \/ ts[t].reads > 0 \/ ts[t].dataTo # 0 =>
                /\ conns[ts[t].rec].connected >= 1
                /\ conns[ts[t].rec].promoted # 0
                /\ ts[t].connID # 0 /\ ts[t].agentID # "")
    /\ [][/\ \A t \in Tunnels :
              /\ TunnelConnected(t) =>
                    /\ ts'[t].connID = conns[ts[t].rec].connectID
                    /\ ts'[t].agentID = conns[ts[t].rec].agentID
              /\ TunnelReadData(t) =>
                    /\ ts'[t].connID = ts[t].connID
                    /\ ts'[t].dataTo \in {ts[t].dataTo, ts[t].backend}
          /\ \A k \in DOMAIN conns :
              conns'[k].connectID # conns[k].connectID =>
                  \E s \in Streams :
                      /\ DialRspPromote(s) /\ bs[s].frontend = k
                      /\ conns'[k].connectID = bs[s].pkt.connectID
                      /\ ~bs[s].pkt.error
          /\ \A s \in Streams :
              /\ DialRspPromote(s) =>
                    frontends'[bs[s].agentID][bs[s].pkt.connectID]
                        = bs[s].frontend
              /\ DialRspSignal(s) =>
                    LET k == bs[s].frontend
                    IN  /\ conns[k].connectID # 0 /\ conns[k].agentID # ""
                        /\ conns[k].promoted # 0]_vars

\* A DATA packet has been sent for a record that was promoted once and is in
\* the Frontend Registry under the connID the handler holds.
C20_Witness ==
    \E t \in Tunnels :
        /\ ts[t].dataTo # 0 /\ ts[t].reads > 0
        /\ conns[ts[t].rec].connected = 1
        /\ ts[t].connID = conns[ts[t].rec].connectID
        /\ frontends[ts[t].agentID][ts[t].connID] = ts[t].rec

\* C17: for each backend handle at most one caller is inside the stream's
\* send at any time, and the stream sees whole packets one after the other:
\* each packet a caller begins is ended by that caller before the next begins.
C17_SendIsSerial ==
    \A h \in Streams :
        /\ Cardinality({p \in Senders :
                           send.h[p] = h /\ send.at[p] = "in"}) <= 1
        /\ \A i \in 1..Len(send.wire[h]) :
               IF i % 2 = 1
               THEN /\ send.wire[h][i][1] = "begin"
                    /\ i = Len(send.wire[h]) =>
                          send.at[send.wire[h][i][2]] = "in"
               ELSE send.wire[h][i] = <<"end", send.wire[h][i - 1][2]>>

\* Two callers are in Send on the same handle at the same time: one is
\* writing its packet and the other is blocked on the mutex.
C17_Witness ==
    \E h \in Streams, p, q \in Senders :
        /\ p # q
        /\ send.h[p] = h /\ send.at[p] = "in"
        /\ send.wire[h] = <<<<"begin", p>>>>
        /\ send.h[q] = h /\ send.at[q] = "lock"

\* C16: on the happy gRPC path the agent gets the DIAL_REQ; the frontend's
\* DATA for the connID c of the DIAL_RSP is sent to the agent's open stream
\* and the agent's DATA for c is forwarded to the frontend; after the
\* frontend's stream closed the agent gets CLOSE_REQ{c}; and in the end the
\* Frontend Registry and the Pending-Dial Table are empty for good.
C16_HappyPathCompletes ==
    /\ <>(\E k \in DOMAIN conns : conns[k].dialSent # 0)
    /\ <>(\E f \in Grpcs :
            /\ fs[f].rec # 0 /\ fs[f].firstConnID # 0
            /\ fs[f].firstConnID = conns[fs[f].rec].connectID
            /\ fs[f].lastTo = conns[fs[f].rec].dialSent
            /\ BackendSendOk(fs[f].lastTo))
    /\ [][\A s \in Streams :
            HappyAgentData(s) =>
                \E k \in DialledOn(s) :
                    /\ getFrontend(frontends, bs[s].agentID,
                                   conns[k].connectID) = k
                    /\ AdapterOk(k, Data(conns[k].connectID))]_vars
    /\ <>(npkts >= 2)
    /\ \A f \in Grpcs :
          fs[f].pc = "done" ~>
              /\ fs[f].synthID # 0
              /\ fs[f].synthID = conns[fs[f].rec].connectID
              /\ fs[f].synthTo = conns[fs[f].rec].dialSent
    /\ <>[](/\ \A a \in AgentIDs, c \in ConnIDs : frontends[a][c] = 0
            /\ \A r \in Nonces : pendingDial[r] = 0
            /\ \E k \in DOMAIN conns : conns[k].tornDown)

\* The end of the happy path: the frontend is gone, the agent's CLOSE_RSP
\* has been handled and both tables are empty.
C16_Witness ==
    /\ \E f \in Grpcs : fs[f].pc = "done" /\ fs[f].synthID # 0
    /\ npkts >= 3
    /\ \E k \in DOMAIN conns : conns[k].tornDown /\ conns[k].connected = 1
    /\ \A a \in AgentIDs, c \in ConnIDs : frontends[a][c] = 0
    /\ \A r \in Nonces : pendingDial[r] = 0

\* C21: a tunnel handler that hijacked the client's socket has closed it by
\* the time it exits, whatever the exit path.
C21_ExitedTunnelClosedSocket ==
    \A t \in Tunnels :
        ts[t].pc = "done" /\ ts[t].sock # "none" => ts[t].sock = "closed"

\* C22: the packets of a stream are handled in the order they arrived: what
\* the handler has forwarded, then what recvCh holds, then what the reader
\* is about to push is the sequence of arrivals, each packet once; and a
\* handler that has ended has handled them all.
C22_HandledInArrivalOrder ==
    LET pending == IF pipe.hold = 0 THEN <<>> ELSE <<pipe.hold>>
        all == pipe.out \o pipe.ch \o pending
    IN  /\ Len(all) = pipe.in
        /\ \A i \in 1..Len(all) : all[i] = i
        /\ Len(pipe.ch) <= ChanDepth
        /\ pipe.hd = "done" => Len(pipe.out) = pipe.in

\* The channel is full, the reader is blocked with the eleventh packet, and
\* the handler has not yet taken the first.
C22_Witness ==
    /\ Len(pipe.ch) = ChanDepth /\ pipe.rd = "push" /\ pipe.hold = ChanDepth + 1
    /\ pipe.out = <<>> /\ pipe.kind = "backend"

\* C23: a tunnel handler that waits on the latch of its record, once the
\* DIAL_RSP that answers its DIAL_REQ has been handled, eventually exits
\* (unless the process has died).
C23_AnsweredTunnelExits ==
    \A t \in Tunnels :
        (/\ ts[t].pc = "wait"
         /\ conns[ts[t].rec].ans = "hit"
         /\ conns[ts[t].rec].dialRsp >= 1
         /\ \A s \in Streams : bs[s].frontend # ts[t].rec)
            ~> (ts[t].pc = "done" \/ panicked)

\* C24: each Frontend Registry entry under (a, c) holds a record whose
\* agentID is a and whose connectID is c, and no record is held under two
\* keys (for the records whose DIAL_REQ was sent before it was answered).
C24_RegistryKeysMatchRecords ==
    \A a \in AgentIDs, c \in ConnIDs :
        frontends[a][c] # 0 /\ conns[frontends[a][c]].ans = "hit" =>
            /\ conns[frontends[a][c]].agentID = a
            /\ conns[frontends[a][c]].connectID = c
            /\ \A a2 \in AgentIDs, c2 \in ConnIDs :
                   frontends[a2][c2] = frontends[a][c] => a2 = a /\ c2 = c

\* C25: the backend field of every record in the Frontend Registry under
\* agentID a is a handle of agent a.
C25_RegisteredUnderOwnAgent ==
    \A a \in AgentIDs, c \in ConnIDs :
        frontends[a][c] # 0 =>
            bs[conns[frontends[a][c]].backend].agentID = a

\* C26: at most one caller of GetRandomBackend is inside the generator at
\* any time.
C26_GeneratorUsedByOne ==
    Cardinality({p \in Callers : rng.at[p] = "read"}) <= 1

====
